---- MODULE Spec2Model ----
(***************************************************************************)
(* Model of src/main.py: a Tk front end supervising one Docker container   *)
(* per project, with a JSON-backed PersistentHashMap (mapVariables) that    *)
(* holds the environment sets and the CONTAINERS table of tracked handles.  *)
(*                                                                          *)
(* Every Tk callback (button command, FocusOut binding, root.after timer)   *)
(* runs to completion on the Tk main loop, so each handler is one action.   *)
(* The Docker engine and Maven are external: their results are chosen with  *)
(* \E among the outcomes the code distinguishes, and containers exit and    *)
(* are auto-removed (remove=True) by engine steps of their own.             *)
(***************************************************************************)
EXTENDS Integers, Sequences, FiniteSets, TLC

VARIABLES
  data,        \* PersistentHashMap.data: the in-memory document
  disk,        \* the content of data.json
  containers,  \* the engine: container id -> [name, status, env]
  dockerfile,  \* project -> the ENV set written to its Dockerfile
  image,       \* project -> the ENV set baked into the image <project>:latest
  timers,      \* container ids whose check_container_status is scheduled
  up,          \* the supervisor process is running
  retired,     \* history: the handles a handler has removed from CONTAINERS
  last         \* history: what the last handler did (calls, sink lines, results)

vars == <<data, disk, containers, dockerfile, image, timers, up, retired, last>>

----------------------------------------------------------------------------
(* Bounds and input sets *)

MaxContainers == 2          \* container ids the engine hands out in a run

Projects == {"p1", "p2"}    \* detect_projects(): the directories found
Ids == 1..MaxContainers
NoHandle == 0               \* None where a container id is expected

EmptyDict == <<>>           \* the Python dict {}

D1 == [A |-> 1, B |-> 2]    \* a default set, as in the spec's example
O1 == [B |-> 3, C |-> 4]    \* an override set colliding with D1 on B
DefaultInputs == {D1}               \* what the common panel can hold
OverrideInputs == {EmptyDict, O1}   \* what the project panel can hold

NoFile == [none |-> 0]      \* no Dockerfile written / no image built yet

----------------------------------------------------------------------------
(* Python dicts as functions *)

Put(d, k, v) == [x \in (DOMAIN d) \cup {k} |-> IF x = k THEN v ELSE d[x]]

Del(d, k) == [x \in (DOMAIN d) \ {k} |-> d[x]]

\* the merge written the other way round, {**b, **a}
MergeDefaultWins(a, b) ==
  [k \in (DOMAIN a) \cup (DOMAIN b) |-> IF k \in DOMAIN a THEN a[k] ELSE b[k]]

\* {**a, **b}: the pairs of a, then the pairs of b assigned over them
Merge(a, b) ==
  [k \in (DOMAIN a) \cup (DOMAIN b) |-> IF k \in DOMAIN b THEN b[k] ELSE a[k]]

----------------------------------------------------------------------------
(* PersistentHashMap, on a world w with fields data and disk *)

\* the top-level keys whose value is a string and not a mapping
ScalarKeys == {"projects_dir"}

\* json.dump: the file holds an object, a nested mapping as its members
JsonDump(d) ==
  [complete |-> TRUE,
   object |-> [k \in DOMAIN d |->
                 IF k \in ScalarKeys THEN d[k]
                 ELSE {<<sk, d[k][sk]>> : sk \in DOMAIN d[k]}]]

\* json.load of a complete file
JsonLoad(f) ==
  [k \in DOMAIN f.object |->
     IF k \in ScalarKeys THEN f.object[k]
     ELSE [sk \in {m[1] : m \in f.object[k]} |->
             (CHOOSE m \in f.object[k] : m[1] = sk)[2]]]

\* _load_data, lines 14-21: a file that does not parse gives {}
LoadData(f) == IF f.complete THEN JsonLoad(f) ELSE EmptyDict

\* _save_data: the file is rewritten with the whole document
SaveData(w) == [w EXCEPT !.disk = JsonDump(w.data)]

\* set that leaves a key it finds as it is
StoreSetKeepsOld(w, key, value) ==
  IF key \in DOMAIN w.data THEN SaveData(w)
  ELSE SaveData([w EXCEPT !.data = Put(w.data, key, value)])

\* set
StoreSet(w, key, value) == SaveData([w EXCEPT !.data = Put(w.data, key, value)])

\* get(key) or {}: None and the empty dict both give {}
GetOrEmpty(d, key) == IF key \in DOMAIN d THEN d[key] ELSE EmptyDict

\* get(key): the value, or None
PyNone == [none |-> 0]

StoreGet(d, key) == IF key \in DOMAIN d THEN d[key] ELSE PyNone

\* get_or_default that stores the default whatever the key holds
GetOrDefaultOverwrites(w, key, default) == StoreSet(w, key, default)

\* get_or_default: the store after the call (the value is GetOrEmpty of it
\* for the default {})
GetOrDefault(w, key, default) ==
  IF key \notin DOMAIN w.data THEN StoreSet(w, key, default) ELSE w

\* get_or_default: the value it returns, line 37
GetOrDefaultValue(w, key, default) ==
  LET d == GetOrDefault(w, key, default).data
  IN  IF key \in DOMAIN d THEN d[key] ELSE default

\* add_dict
AddDict(w, key, sub_key, sub_value) ==
  LET d0 == IF key \notin DOMAIN w.data THEN Put(w.data, key, EmptyDict) ELSE w.data
  IN  SaveData([w EXCEPT !.data = Put(d0, key, Put(d0[key], sub_key, sub_value))])

\* remove_dict deleting the key with the last of its sub-keys
RemoveDictDropsEmpty(w, key, sub_key) ==
  IF key \in DOMAIN w.data /\ sub_key \in DOMAIN w.data[key]
  THEN SaveData([w EXCEPT !.data =
                   IF DOMAIN w.data[key] = {sub_key} THEN Del(w.data, key)
                   ELSE Put(w.data, key, Del(w.data[key], sub_key))])
  ELSE w

\* remove_dict
RemoveDict(w, key, sub_key) ==
  IF key \in DOMAIN w.data /\ sub_key \in DOMAIN w.data[key]
  THEN SaveData([w EXCEPT !.data = Put(w.data, key, Del(w.data[key], sub_key))])
  ELSE w

\* the CONTAINERS table of a document
Registry(d) == GetOrEmpty(d, "CONTAINERS")

Tracked(d, p) == p \in DOMAIN Registry(d)

HandleOf(d, p) == IF Tracked(d, p) THEN Registry(d)[p] ELSE NoHandle

----------------------------------------------------------------------------
(* The handlers' view of the world.  calls and lines collect what one       *)
(* handler asks of the engine and of Maven and what it inserts into the     *)
(* project's log widget; launched is the id containers.run returned.        *)

World ==
  [data |-> data, disk |-> disk, containers |-> containers,
   dockerfile |-> dockerfile, image |-> image, timers |-> timers,
   retired |-> retired, calls |-> <<>>, lines |-> <<>>,
   launched |-> NoHandle, env |-> EmptyDict]

\* an external call, with the handle tracked for the project when it is made
Call(w, fn, p, id) ==
  [w EXCEPT !.calls = Append(@, [fn |-> fn, proj |-> p, id |-> id,
                                 tracked |-> HandleOf(w.data, p)])]

\* log_widget.insert(tk.END, ...)
Emit(w, line) == [w EXCEPT !.lines = Append(@, line)]

\* untrack, remembering the handle that was dropped
Untrack(w, p) ==
  LET h == HandleOf(w.data, p)
      w1 == RemoveDict(w, "CONTAINERS", p)
  IN  IF h = NoHandle THEN w1 ELSE [w1 EXCEPT !.retired = @ \cup {h}]

----------------------------------------------------------------------------
(* The Docker engine *)

\* the container exists for client.containers.get / container.reload
Exists(cs, id) == id \in Ids /\ cs[id].status \in {"running", "exited"}

\* the ids the engine has not handed out yet
FreeIds(cs) == {i \in Ids : cs[i].status = "new"}

\* containers.run(image, name=project_name, ...) can succeed: the image
\* exists, the name is not taken by a container not yet removed
CanRun(w, p) ==
  /\ w.image[p] # NoFile
  /\ \A i \in Ids : ~(Exists(w.containers, i) /\ w.containers[i].name = p)
  /\ FreeIds(w.containers) # {}

NewId(cs) == CHOOSE i \in FreeIds(cs) : \A j \in FreeIds(cs) : i <= j

----------------------------------------------------------------------------
(* stop_project, lines 149-161.  so: the result of container.stop()         *)

\* stop_project with the untrack inside the try block
StopProjectKeepOnError(w, p, so) ==
  IF Tracked(w.data, p)
  THEN LET id == HandleOf(w.data, p)
           w1 == Call(w, "get", p, id)
       IN  IF ~Exists(w.containers, id)
           THEN Untrack(Emit(w1, "no_encontrado"), p)
           ELSE IF so = "ok"
           THEN Untrack(Emit([Call(w1, "stop", p, id) EXCEPT
                                !.containers[id].status = "exited"],
                             "detenido"), p)
           ELSE Emit(Call(w1, "stop", p, id), "error_detener")
  ELSE w

\* stop_project without the membership test of line 151
StopProjectNoGuard(w, p, so) ==
  LET id == HandleOf(w.data, p)
      w1 == Call(w, "get", p, id)
      w2 == IF ~Exists(w.containers, id)
            THEN Emit(w1, "no_encontrado")
            ELSE IF so = "ok"
            THEN Emit([Call(w1, "stop", p, id) EXCEPT
                         !.containers[id].status = "exited"], "detenido")
            ELSE Emit(Call(w1, "stop", p, id), "error_detener")
  IN  Untrack(w2, p)

StopProject(w, p, so) ==
  IF Tracked(w.data, p)
  THEN LET id == HandleOf(w.data, p)
           w1 == Call(w, "get", p, id)
           w2 == IF ~Exists(w.containers, id)
                 THEN Emit(w1, "no_encontrado")
                 ELSE IF so = "ok"
                 THEN Emit([Call(w1, "stop", p, id) EXCEPT
                              !.containers[id].status = "exited"], "detenido")
                 ELSE Emit(Call(w1, "stop", p, id), "error_detener")
       IN  Untrack(w2, p)
  ELSE w

----------------------------------------------------------------------------
(* build_java_project, lines 90-107.  jb: the result of mvn                 *)

BuildJavaProject(w, p, jb) ==
  LET w1 == Emit(Call(Emit(w, "construyendo"), "mvn", p, NoHandle), "mvn_output")
  IN  IF jb = "ok" THEN Emit(w1, "java_ok") ELSE Emit(w1, "java_error")

\* create_dockerfile, lines 54-67: the ENV lines are the effective set
CreateDockerfile(w, p, env_vars) == [w EXCEPT !.dockerfile[p] = env_vars]

\* build_docker_image, lines 69-80: a BuildError is caught and logged, any
\* other error of images.build leaves the function as an exception
BuildDockerImage(w, p, ib) ==
  LET w1 == Call(w, "image_build", p, NoHandle)
  IN  IF ib = "ok"
      THEN Emit([w1 EXCEPT !.image[p] = w1.dockerfile[p]], "image_log")
      ELSE IF ib = "builderror" THEN Emit(w1, "image_error")
      ELSE w1

\* the try block without the add_dict of line 131
LaunchNoTrack(w, p, lo) ==
  LET w1 == Call(w, "run", p, NoHandle)
  IN  IF lo = "ok" /\ CanRun(w, p)
      THEN LET id == NewId(w.containers)
               w2 == [w1 EXCEPT !.containers[id] =
                                  [name |-> p, status |-> "running",
                                   env |-> w.image[p]],
                                !.launched = id]
           IN  [Emit(w2, "iniciado") EXCEPT !.timers = @ \cup {id}]
      ELSE Emit(w1, "error_iniciar")

\* the try block of start_project, lines 121-147.  lo: the engine's answer
Launch(w, p, lo) ==
  LET w1 == Call(w, "run", p, NoHandle)
  IN  IF lo = "ok" /\ CanRun(w, p)
      THEN LET id == NewId(w.containers)
               w2 == [w1 EXCEPT !.containers[id] =
                                  [name |-> p, status |-> "running",
                                   env |-> w.image[p]],
                                !.launched = id]
               w3 == AddDict(w2, "CONTAINERS", p, id)
           IN  [Emit(w3, "iniciado") EXCEPT !.timers = @ \cup {id}]
      ELSE Emit(w1, "error_iniciar")

----------------------------------------------------------------------------
(* start_project, lines 109-147 *)

StartProject(w, p, jb, ib, lo) ==
  LET default_vars == GetOrEmpty(w.data, "default_env_vars")
      w1 == GetOrDefault(w, p, EmptyDict)
      project_vars == GetOrEmpty(w1.data, p)
      env_vars == Merge(default_vars, project_vars)
      w2 == BuildJavaProject([w1 EXCEPT !.env = env_vars], p, jb)
      w3 == CreateDockerfile(w2, p, env_vars)
      w4 == BuildDockerImage(w3, p, ib)
  IN  IF jb # "ok" THEN w2
      \* an APIError of images.build is caught nowhere: the handler ends
      ELSE IF ib = "apierror" THEN w4
      \* the result of build_docker_image is not looked at
      ELSE Launch(w4, p, lo)

\* restart_project starting only what it stopped
RestartProjectSkipsStart(w, p, so, jb, ib, lo) ==
  IF Tracked(w.data, p)
  THEN StartProject(StopProject(w, p, so), p, jb, ib, lo)
  ELSE w

\* restart_project, lines 163-165
RestartProject(w, p, so, jb, ib, lo) ==
  StartProject(StopProject(w, p, so), p, jb, ib, lo)

\* check_container_status also untracking when the container is not found
CheckContainerStatusUntracksMissing(w, p, id) ==
  IF ~Exists(w.containers, id)
  THEN [Untrack(Call(w, "reload", p, id), p) EXCEPT !.timers = @ \ {id}]
  ELSE IF w.containers[id].status = "exited"
  THEN [Untrack(Emit(Call(w, "reload", p, id), "se_ha_detenido"), p)
          EXCEPT !.timers = @ \ {id}]
  ELSE Call(w, "reload", p, id)

\* check_container_status, lines 136-144, of the container id launched for p
CheckContainerStatus(w, p, id) ==
  IF ~Exists(w.containers, id)
  THEN \* container.reload() raises NotFound: nothing is rescheduled
       [Call(w, "reload", p, id) EXCEPT !.timers = @ \ {id}]
  ELSE IF w.containers[id].status = "exited"
  THEN [Untrack(Emit(Call(w, "reload", p, id), "se_ha_detenido"), p)
          EXCEPT !.timers = @ \ {id}]
  ELSE Call(w, "reload", p, id)

----------------------------------------------------------------------------
(* The state machine *)

NoOracle == [so |-> "-", jb |-> "-", ib |-> "-", lo |-> "-"]

\* the document after line 51 pinned projects_dir
FreshDoc == [projects_dir |-> "base"]

\* the document a previous run left behind with p1 tracked as container 1
LeftoverDoc ==
  [projects_dir |-> "base", p1 |-> EmptyDict, CONTAINERS |-> [p1 |-> 1]]

\* an id the engine has not handed out
NoContainer == [name |-> "", status |-> "new", env |-> EmptyDict]

InitWorld ==
  /\ \/ /\ data = FreshDoc
        /\ containers = [i \in Ids |-> NoContainer]
        /\ dockerfile = [p \in Projects |-> NoFile]
        /\ image = [p \in Projects |-> NoFile]
     \/ /\ data = LeftoverDoc
        /\ \E st \in {"running", "removed"} :
             containers = [i \in Ids |-> IF i = 1
                                         THEN [name |-> "p1", status |-> st,
                                               env |-> EmptyDict]
                                         ELSE NoContainer]
        /\ dockerfile = [p \in Projects |-> IF p = "p1" THEN EmptyDict ELSE NoFile]
        /\ image = dockerfile
  /\ disk = JsonDump(data)
  /\ timers = {}
  /\ up = TRUE
  /\ retired = {}

\* no handler has run yet; prev is recorded only where it starts as "init"
NoHandler(prev) ==
  [tick |-> 0, op |-> "init", proj |-> "", pre |-> NoHandle,
   calls |-> <<>>, lines |-> <<>>, launched |-> NoHandle,
   env |-> EmptyDict, oracle |-> NoOracle, prev |-> prev]

Init == InitWorld /\ last = NoHandler("off")

\* a handler ran: the world it leaves, and the record of what it did
Commit(w, op, p, orc) ==
  /\ up
  /\ up' = up
  /\ data' = w.data
  /\ disk' = w.disk
  /\ containers' = w.containers
  /\ dockerfile' = w.dockerfile
  /\ image' = w.image
  /\ timers' = w.timers
  /\ retired' = w.retired
  /\ last' = [tick |-> 1 - last.tick, op |-> op, proj |-> p,
              pre |-> HandleOf(data, p), calls |-> w.calls, lines |-> w.lines,
              launched |-> w.launched, env |-> w.env, oracle |-> orc,
              prev |-> IF last.prev = "off" THEN "off"
                       ELSE IF last.proj = p THEN last.op ELSE "other"]

\* the results the external calls of a handler can have, those that are not
\* asked for being "-"
StopResults(w, p) ==
  IF Exists(w.containers, HandleOf(w.data, p)) THEN {"ok", "apierror"} ELSE {"-"}

StartResults ==
  {[so |-> "-", jb |-> jb, ib |-> ib, lo |-> lo] :
     jb \in {"ok", "fail"}, ib \in {"ok", "builderror", "apierror", "-"},
     lo \in {"ok", "apierror", "-"}}

Consistent(orc) ==
  /\ (orc.ib = "-") = (orc.jb # "ok")
  /\ (orc.lo = "-") = (orc.ib \notin {"ok", "builderror"})

\* the "Iniciar" button, line 282
Start(p) ==
  \E orc \in StartResults :
    /\ Consistent(orc)
    /\ LET w == StartProject(World, p, orc.jb, orc.ib, orc.lo)
       IN  /\ orc.lo = "ok" => w.launched # NoHandle
           /\ Commit(w, "start", p, orc)

\* the "Detener" button, line 283
Stop(p) ==
  \E so \in StopResults(World, p) :
    Commit(StopProject(World, p, so), "stop", p, [NoOracle EXCEPT !.so = so])

\* the "Reiniciar" button, line 284
Restart(p) ==
  \E so \in StopResults(World, p), o \in StartResults :
    /\ Consistent(o)
    /\ LET orc == [o EXCEPT !.so = so]
           w == RestartProject(World, p, so, orc.jb, orc.ib, orc.lo)
       IN  /\ orc.lo = "ok" => w.launched # NoHandle
           /\ Commit(w, "restart", p, orc)

\* a root.after timer fires, lines 142 and 144
Poll(id) ==
  /\ id \in timers
  /\ Commit(CheckContainerStatus(World, containers[id].name, id),
            "poll", containers[id].name, NoOracle)

\* save_common_env, lines 240-247 (FocusOut of the common panel)
SaveCommonEnv(e) ==
  Commit(StoreSet(World, "default_env_vars", e), "save_common", "", NoOracle)

\* save_project_env, lines 249-259 (FocusOut, "Guardar Variables")
SaveProjectEnv(p, e) ==
  Commit(StoreSet(World, p, e), "save_project", p, NoOracle)

\* the process in a container ends by itself
ContainerExits(id) ==
  /\ containers[id].status = "running"
  /\ containers' = [containers EXCEPT ![id].status = "exited"]
  /\ UNCHANGED <<data, disk, dockerfile, image, timers, up, retired, last>>

\* remove=True, line 129: the engine removes an exited container, and its
\* environment with it
ContainerRemoved(id) ==
  /\ containers[id].status = "exited"
  /\ containers' = [containers EXCEPT ![id].status = "removed",
                                      ![id].env = EmptyDict]
  /\ UNCHANGED <<data, disk, dockerfile, image, timers, up, retired, last>>

\* the engine's own steps and the timers
Background ==
  \/ \E id \in Ids : Poll(id)
  \/ \E id \in Ids : ContainerExits(id)
  \/ \E id \in Ids : ContainerRemoved(id)

\* the three buttons, on either project
Next ==
  \/ \E p \in Projects : Start(p)
  \/ \E p \in Projects : Stop(p)
  \/ \E p \in Projects : Restart(p)
  \/ Background

Spec == Init /\ [][Next]_vars

\* the buttons and the two text panels, with one project selected
NextEnv ==
  \/ Start("p1")
  \/ Stop("p1")
  \/ Restart("p1")
  \/ \E e \in DefaultInputs : SaveCommonEnv(e)
  \/ \E e \in OverrideInputs : SaveProjectEnv("p1", e)
  \/ Background

SpecEnv == Init /\ [][NextEnv]_vars

\* the buttons of one project, each handler recording the one before it
NextPair ==
  \/ Start("p1")
  \/ Stop("p1")
  \/ Restart("p1")
  \/ Background

InitPair == InitWorld /\ last = NoHandler("init")

SpecPair == InitPair /\ [][NextPair]_vars

----------------------------------------------------------------------------
(* Properties of the lifecycle handlers *)

\* a step in which a handler ran (the engine's own steps leave last alone)
HandlerStep == last'.tick # last.tick

Fns(calls) == {calls[i].fn : i \in 1..Len(calls)}

Lines(ls) == {ls[i] : i \in 1..Len(ls)}

\* C1: when start(P) is invoked with a handle tracked for P, the tracked
\* instance is stopped and untracked before the build and launch steps: the
\* first external call is a termination of that handle, and no build or
\* launch call is made with the old handle still tracked.
C1_StartStopsTrackedFirst ==
  (last.op = "start" /\ last.pre # NoHandle) =>
     /\ last.calls # <<>>
     /\ last.calls[1].fn \in {"get", "stop"}
     /\ last.calls[1].id = last.pre
     /\ \A i \in 1..Len(last.calls) :
          last.calls[i].fn \in {"mvn", "image_build", "run"}
            => last.calls[i].tracked # last.pre

\* C2: after stop(P) of a tracked project the registry has no entry for P,
\* whether the termination succeeded, found no instance or met an engine
\* error.
C2_StopAlwaysUntracks ==
  (last.op = "stop" /\ last.pre # NoHandle) =>
     /\ ~Tracked(data, last.proj)
     /\ ~Tracked(LoadData(disk), last.proj)
     /\ Fns(last.calls) \cap {"get", "stop"} # {}

\* stop(P) untracked P although the engine refused to stop the container
C2_Witness ==
  /\ last.op = "stop"
  /\ last.pre # NoHandle
  /\ last.oracle.so = "apierror"
  /\ "error_detener" \in Lines(last.lines)
  /\ ~Tracked(data, last.proj)

\* C3: stop(P) of a project that is not tracked changes neither the
\* registry nor any other part of the document, in memory or on disk, and
\* asks nothing of the engine; so a stop(P) right after a stop(P) changes
\* nothing.
C3_StopUntrackedChangesNothing ==
  [][ (HandlerStep /\ last'.op = "stop")
        => /\ ~Tracked(data, last'.proj)
              => /\ data' = data
                 /\ disk' = disk
                 /\ containers' = containers
                 /\ timers' = timers
                 /\ last'.calls = <<>>
           /\ (last.op = "stop" /\ last.proj = last'.proj)
              => (data' = data /\ disk' = disk /\ containers' = containers)
    ]_vars

\* stop(P) ran for an untracked P while the other project stayed tracked
C3_Witness ==
  /\ last.op = "stop"
  /\ last.pre = NoHandle
  /\ last.calls = <<>>
  /\ Registry(data) # EmptyDict
  /\ LoadData(disk) = data

\* C4: stop(P) of a project that is not tracked reports "nothing tracked":
\* at least one line reaches P's log sink.
C4_StopUntrackedReports ==
  (last.op = "stop" /\ last.pre = NoHandle) => last.lines # <<>>

\* the handler stop_project and then the handler start_project, each with
\* the calls and the sink lines of its own, the two put one after the other
StopThenStart(w, p, o) ==
  LET afterStop == StopProject(w, p, o.so)
  IN  LET afterStart ==
            StartProject([afterStop EXCEPT !.calls = <<>>, !.lines = <<>>],
                         p, o.jb, o.ib, o.lo)
      IN  [afterStart EXCEPT !.calls = afterStop.calls \o @,
                             !.lines = afterStop.lines \o @]

\* C5: restart(P) leaves the document, the registry entry, the engine and
\* the timers as stop(P) followed by start(P) does, with the same external
\* calls and the same sink lines, also when stop finds nothing tracked.
C5_RestartIsStopThenStart ==
  [][ (HandlerStep /\ last'.op = "restart")
        => /\ StopThenStart(World, last'.proj, last'.oracle)
                = [data |-> data', disk |-> disk', containers |-> containers',
                   dockerfile |-> dockerfile', image |-> image',
                   timers |-> timers', retired |-> retired',
                   calls |-> last'.calls, lines |-> last'.lines,
                   launched |-> last'.launched, env |-> last'.env]
           /\ "mvn" \in Fns(last'.calls)
    ]_vars

\* restart(P) of an untracked P asked the engine to stop nothing and
\* launched a container
C5_Witness ==
  /\ last.op = "restart"
  /\ last.pre = NoHandle
  /\ last.launched # NoHandle
  /\ HandleOf(data, last.proj) = last.launched
  /\ Fns(last.calls) = {"mvn", "image_build", "run"}

\* C6: if a build step of start(P) fails, the project build or the image
\* build, the failure is reported to the sink and start aborts: containers.run
\* is not called and no handle is recorded by that start.
C6_BuildFailureAborts ==
  (last.op = "start"
     /\ (last.oracle.jb = "fail" \/ last.oracle.ib \in {"builderror", "apierror"}))
  => /\ Lines(last.lines) \cap {"java_error", "image_error"} # {}
     /\ "run" \notin Fns(last.calls)
     /\ last.launched = NoHandle

\* C7: if the launch of start(P) fails, the failure is reported to the sink
\* and the registry holds no handle for P when start returns, also when P was
\* tracked as start was invoked.
C7_LaunchFailureLeavesUntracked ==
  (last.op = "start" /\ last.oracle.lo = "apierror")
  => /\ "error_iniciar" \in Lines(last.lines)
     /\ ~Tracked(data, last.proj)

\* C8: a successful start(P) of an untracked P maps P to the identifier its
\* launch returned; a stop(P) leaves no entry for P; and no later start maps
\* P to an identifier that was removed from the registry before.
C8_FreshHandlePerStart ==
  /\ (last.op = "start" /\ last.launched # NoHandle)
       => /\ HandleOf(data, last.proj) = last.launched
          /\ HandleOf(LoadData(disk), last.proj) = last.launched
          /\ last.launched # last.pre
  /\ last.op = "stop" => ~Tracked(data, last.proj)
  /\ \A p \in Projects : HandleOf(data, p) \notin retired

\* start(P) of an untracked P tracked a new container although an earlier
\* container of P had been tracked and untracked before
C8_Witness ==
  /\ last.op = "start"
  /\ last.pre = NoHandle
  /\ last.launched # NoHandle
  /\ HandleOf(data, last.proj) = last.launched
  /\ \E h \in retired : h # last.launched /\ containers[h].name = last.proj

----------------------------------------------------------------------------
(* A start and a stop of one project issued one after the other.  Both are  *)
(* commands of Tk buttons (lines 282-283) and run on the main loop, each to *)
(* its end, so the two orders are all the interleavings there are.          *)

\* C9 as stated: the registry holds at most one handle for P, and the
\* operation that completes last decides the entry: the new handle when it
\* is start, none when it is stop.
C9_LastOperationDecides ==
  /\ (last.op = "start" /\ last.prev = "stop")
       => /\ last.launched # NoHandle
          /\ HandleOf(data, last.proj) = last.launched
  /\ (last.op = "stop" /\ last.prev = "start") => ~Tracked(data, last.proj)

\* C9 as the code has it: when start completes last, the entry is the new
\* handle if its builds and launch got a container, and otherwise what stop
\* left, which is none; when stop completes last there is none.
C9_LastOperationDecidesIfLaunched ==
  /\ (last.op = "start" /\ last.prev = "stop")
       => HandleOf(data, last.proj) = last.launched
  /\ (last.op = "stop" /\ last.prev = "start") => ~Tracked(data, last.proj)
  /\ \A p \in DOMAIN Registry(data) :
       Cardinality({h \in Ids : Registry(data)[p] = h}) = 1

\* start(P) ran right after stop(P) had untracked a container, and tracked
\* the container it launched
C9_Witness ==
  /\ last.op = "start"
  /\ last.prev = "stop"
  /\ retired # {}
  /\ last.launched # NoHandle
  /\ HandleOf(data, last.proj) = last.launched

----------------------------------------------------------------------------
(* The effective environment *)

\* C10: the effective environment of start(P) has the keys of the default
\* set and of P's override set, a key of the override set with the override's
\* value and any other with the default's; no default set counts as empty.
C10_EffectiveEnvironment ==
  (last.op \in {"start", "restart"}) =>
     LET D == IF "default_env_vars" \in DOMAIN data
              THEN data["default_env_vars"] ELSE EmptyDict
         O == data[last.proj]
     IN  /\ DOMAIN last.env = (DOMAIN D) \cup (DOMAIN O)
         /\ \A k \in DOMAIN last.env :
              last.env[k] = IF k \in DOMAIN O THEN O[k] ELSE D[k]
         /\ last.oracle.jb = "ok" => dockerfile[last.proj] = last.env

\* start ran with the defaults {A:1, B:2} and the override {B:3, C:4}
C10_Witness ==
  /\ last.op = "start"
  /\ "default_env_vars" \in DOMAIN data
  /\ data["default_env_vars"] = D1
  /\ data[last.proj] = O1
  /\ last.env = [A |-> 1, B |-> 3, C |-> 4]

----------------------------------------------------------------------------
(* The PersistentHashMap by itself: its four mutating methods called with   *)
(* any key, sub-key and value, the process dying inside _save_data, and the *)
(* module being loaded again.                                               *)

StoreKeys == {"k1", "k2"}
SubKeys == {"a", "b"}
SubValues == {"x", "y"}

\* the mappings a key can be set to
Dicts == UNION {[S -> SubValues] : S \in SUBSET SubKeys}

\* what a call of a method did: the document before it and what a get of
\* the key returns after it
StoreRecord(op, key, sub, value, w) ==
  [tick |-> 1 - last.tick, op |-> op, key |-> key, sub |-> sub,
   value |-> value, ret |-> StoreGet(w.data, key), before |-> data,
   after |-> w.data]

CommitStore(w, rec) ==
  /\ up
  /\ data' = w.data
  /\ disk' = w.disk
  /\ last' = rec
  /\ UNCHANGED <<containers, dockerfile, image, timers, up, retired>>

OpSet(k, v) ==
  LET w == StoreSet(World, k, v)
  IN  CommitStore(w, StoreRecord("set", k, "", v, w))

OpGetOrDefault(k, d) ==
  LET w == GetOrDefault(World, k, d)
  IN  CommitStore(w, [StoreRecord("get_or_default", k, "", d, w)
                        EXCEPT !.ret = GetOrDefaultValue(World, k, d)])

OpAddDict(k, sk, v) ==
  LET w == AddDict(World, k, sk, v)
  IN  CommitStore(w, StoreRecord("add_dict", k, sk, v, w))

OpRemoveDict(k, sk) ==
  LET w == RemoveDict(World, k, sk)
  IN  CommitStore(w, StoreRecord("remove_dict", k, sk, "", w))

\* the documents a method that reaches _save_data can be writing
Writes ==
  {StoreSet(World, k, v).data : k \in StoreKeys, v \in Dicts}
    \cup {AddDict(World, k, sk, v).data :
            k \in StoreKeys, sk \in SubKeys, v \in SubValues}
    \cup {RemoveDict(World, k, sk).data :
            k \in {x \in StoreKeys : x \in DOMAIN data},
            sk \in {y \in SubKeys : \E x \in StoreKeys :
                                      x \in DOMAIN data /\ y \in DOMAIN data[x]}}

\* _save_data, lines 23-25, cut short: open(filename, 'w') has emptied the
\* file and json.dump has written none, some or all of the document
FilesWhileSaving(old, new) ==
  {old, JsonDump(new)}
    \cup {[complete |-> FALSE, object |-> [k \in S |-> JsonDump(new).object[k]]] :
            S \in (SUBSET DOMAIN new) \ {DOMAIN new}}

\* the process dies, or the write fails, inside _save_data
KilledInSave ==
  /\ up
  /\ \E new \in Writes :
       /\ \E f \in FilesWhileSaving(disk, new) :
            /\ disk' = f
            /\ data' = new
            /\ last' = [tick |-> 1 - last.tick, op |-> "killed", key |-> "",
                        sub |-> "", value |-> "", ret |-> PyNone,
                        before |-> data, after |-> new]
  /\ up' = FALSE
  /\ timers' = {}
  /\ UNCHANGED <<containers, dockerfile, image, retired>>

\* the window is closed, or the process is killed between two callbacks
SupervisorExits ==
  /\ up
  /\ up' = FALSE
  /\ timers' = {}
  /\ last' = [last EXCEPT !.tick = 1 - @, !.op = "exit"]
  /\ UNCHANGED <<data, disk, containers, dockerfile, image, retired>>

\* the module is loaded again, lines 50-51
Boot ==
  /\ ~up
  /\ LET w == GetOrDefault([data |-> LoadData(disk), disk |-> disk],
                           "projects_dir", "base")
     IN  data' = w.data /\ disk' = w.disk
  /\ up' = TRUE
  /\ last' = [last EXCEPT !.tick = 1 - @, !.op = "boot"]
  /\ UNCHANGED <<containers, dockerfile, image, timers, retired>>

InitStore ==
  /\ InitWorld
  /\ data = FreshDoc
  /\ last = [tick |-> 0, op |-> "init", key |-> "", sub |-> "", value |-> "",
             ret |-> PyNone, before |-> data, after |-> data]

NextStore ==
  \/ \E k \in StoreKeys, v \in Dicts : OpSet(k, v)
  \/ \E k \in StoreKeys, d \in Dicts : OpGetOrDefault(k, d)
  \/ \E k \in StoreKeys, sk \in SubKeys, v \in SubValues : OpAddDict(k, sk, v)
  \/ \E k \in StoreKeys, sk \in SubKeys : OpRemoveDict(k, sk)
  \/ KilledInSave
  \/ SupervisorExits
  \/ Boot

SpecStore == InitStore /\ [][NextStore]_vars

\* the top-level keys other than key hold in d2 what they hold in d1
OthersUnchanged(d1, d2, key) ==
  /\ (DOMAIN d1) \ {key} = (DOMAIN d2) \ {key}
  /\ \A k \in (DOMAIN d1) \ {key} : d2[k] = d1[k]

\* C11: set(k, v) followed by get(k) returns v, and the set changes the
\* value of no other top-level key.
C11_SetThenGet ==
  last.op = "set" =>
     /\ last.ret = last.value
     /\ StoreGet(data, last.key) = last.value
     /\ OthersUnchanged(last.before, data, last.key)

\* set replaced the mapping a key held while another key held one too
C11_Witness ==
  /\ last.op = "set"
  /\ last.key \in DOMAIN last.before
  /\ last.before[last.key] # last.value
  /\ data[last.key] = last.value
  /\ \E k \in StoreKeys \ {last.key} : k \in DOMAIN data /\ data[k] # EmptyDict

\* C12: get_or_default(k, d1) with k absent stores and returns d1; a later
\* get_or_default(k, d2), d2 equal to d1 or not, returns the stored value and
\* leaves the store as it is.
C12_GetOrDefaultKeepsStored ==
  [][ (HandlerStep /\ last'.op = "get_or_default")
        => LET k == last'.key
           IN  /\ k \notin DOMAIN data
                    => /\ data' = Put(data, k, last'.value)
                       /\ LoadData(disk') = data'
                       /\ last'.ret = last'.value
               /\ k \in DOMAIN data
                    => /\ data' = data
                       /\ disk' = disk
                       /\ last'.ret = data[k]
               /\ (last.op = "get_or_default" /\ last.key = k)
                    => /\ last'.ret = last.ret
                       /\ data' = data
                       /\ disk' = disk
    ]_vars

\* a second get_or_default with another default returned the stored mapping
C12_Witness ==
  /\ last.op = "get_or_default"
  /\ last.key \in DOMAIN last.before
  /\ last.value # last.before[last.key]
  /\ last.ret = last.before[last.key]
  /\ data = last.before

\* C13: for a key k that is absent or holds a mapping, remove_dict(k, sk)
\* right after add_dict(k, sk, v) leaves get(k) a mapping without sk, the
\* empty one when k was absent or empty before the add; a further
\* remove_dict(k, sk) changes nothing, and neither does remove_dict on an
\* absent k.
C13_AddThenRemove ==
  [][ (HandlerStep /\ last'.op = "remove_dict")
        => LET k == last'.key
               sk == last'.sub
           IN  /\ k \notin DOMAIN data => (data' = data /\ disk' = disk)
               /\ (last.op = "add_dict" /\ last.key = k /\ last.sub = sk)
                    => /\ k \in DOMAIN data'
                       /\ sk \notin DOMAIN data'[k]
                       /\ data'[k] = Del(data[k], sk)
                       /\ LoadData(disk') = data'
                       /\ (k \notin DOMAIN last.before
                             \/ last.before[k] = EmptyDict)
                            => data'[k] = EmptyDict
               /\ (last.op = "remove_dict" /\ last.key = k /\ last.sub = sk)
                    => (data' = data /\ disk' = disk)
    ]_vars

\* remove_dict took the only sub-key out of a mapping and left it empty
C13_Witness ==
  /\ last.op = "remove_dict"
  /\ last.key \in DOMAIN last.before
  /\ DOMAIN last.before[last.key] = {last.sub}
  /\ last.key \in DOMAIN data
  /\ data[last.key] = EmptyDict

\* C15: the rewrite of the file is atomic: when the process dies or the
\* write fails inside a mutating method, the file holds the whole document
\* of before the method or the whole document of after it, and loading it
\* gives one of the two.
C15_RewriteIsAtomic ==
  last.op = "killed" =>
     /\ disk \in {JsonDump(last.before), JsonDump(last.after)}
     /\ LoadData(disk) \in {last.before, last.after}

\* C14: after every completed mutating method the file holds the document
\* that is in memory, and the document loaded when the supervisor starts
\* again is the one the last completed method left (here, leniently, also
\* the one a method cut short by the death of the process was writing).
C14_ReloadYieldsLastCompleted ==
  [][ /\ (HandlerStep /\ up /\ up') => LoadData(disk') = data'
      /\ (~up /\ up')
           => data' \in (IF last.op = "killed"
                           THEN {last.before, last.after}
                           ELSE {data})
    ]_vars

----------------------------------------------------------------------------
(* The poll loops.  A timer that root.after armed does fire while the main  *)
(* loop runs: weak fairness of every Poll.  Nothing makes the user press a  *)
(* button or a container end.                                               *)

SpecLive ==
  /\ InitPair
  /\ [][NextPair]_vars
  /\ \A id \in Ids : WF_vars(Poll(id))

\* the registry names container id for some project
Names(id) == \E p \in Projects : HandleOf(data, p) = id

\* C16: when the instance of a tracked project has exited, the timers firing,
\* its handle is eventually dropped from the registry, whether the handle
\* comes from a start of this run or from the document loaded at startup.
C16_ExitEventuallyUntracked ==
  \A id \in Ids :
    (Names(id) /\ containers[id].status \in {"exited", "removed"})
       ~> ~Names(id)

\* the container whose timer fired in the handler that just ran
Polled == last.calls[1].id

\* C17: once a project is untracked, by stop or by the poll, the poll loop
\* started for it does not reschedule itself: a tick that finds the project
\* untracked is the loop's last one, whatever container.stop() answered.
C17_PollLoopEndsOnceUntracked ==
  [][ (HandlerStep /\ last'.op = "poll" /\ ~Tracked(data, last'.proj))
        => Polled' \notin timers'
    ]_vars

\* C18: the environment of an instance that start (or the start inside
\* restart) launched is the effective environment resolved from the stored
\* default and override sets at that start, and saving either set changes
\* no container.
C18_InstanceEnvResolvedAtStart ==
  [][ HandlerStep
        => /\ (last'.op \in {"start", "restart"} /\ last'.launched # NoHandle)
                => containers'[last'.launched].env = last'.env
           /\ last'.op \in {"save_common", "save_project"}
                => containers' = containers
    ]_vars

\* C19: a poll never untracks a live instance: whenever a timer's callback
\* removes the registry entry of a project, the handle the entry held is the
\* container of that timer, which the callback saw exited; a timer left over
\* from an earlier container removes no entry of a later one.
C19_PollUntracksOnlyItsOwn ==
  [][ (/\ HandlerStep
       /\ last'.op = "poll"
       /\ Tracked(data, last'.proj)
       /\ ~Tracked(data', last'.proj))
        => /\ HandleOf(data, last'.proj) = Polled'
           /\ containers[Polled'].status = "exited"
    ]_vars

\* a timer's callback saw its container exited and removed the entry
C19_Witness ==
  /\ last.op = "poll"
  /\ last.pre # NoHandle
  /\ last.pre = Polled
  /\ ~Tracked(data, last.proj)
  /\ last.lines = <<"se_ha_detenido">>

\* the registry entry of the container's project is this container
Registered(id) == HandleOf(data, containers[id].name) = id

\* C20: no orphaned instances: between handlers every running container
\* that the supervisor launched is the one its project's registry entry
\* names.
C20_NoOrphans ==
  \A id \in Ids : containers[id].status = "running" => Registered(id)

\* C20, amended: between handlers every running container is the one its
\* project's registry entry names, or one whose handle a stop dropped
\* although the engine did not stop it.
C20_NoOrphansButFailedStops ==
  \A id \in Ids :
    containers[id].status = "running" => (Registered(id) \/ id \in retired)

\* a stop whose container.stop() failed left the container running, untracked
C20_Witness ==
  /\ last.op = "stop"
  /\ last.oracle.so = "apierror"
  /\ last.pre \in retired
  /\ containers[last.pre].status = "running"
  /\ ~Registered(last.pre)

====
